---- MODULE Spec2Model ----
(***************************************************************************)
(* The batch TCP-reachability prober, in its three variants:               *)
(*   "ctx"   main and checkConnectivity with context, retry loop, buffered *)
(*           result channel and the semaphore acquired inside the worker;  *)
(*   "sem"   checkip3.go: the semaphore acquired by the dispatch loop,     *)
(*           unbuffered result channel, drain loop after the dispatch;     *)
(*   "plain" the first version: one goroutine per record, no semaphore,    *)
(*           wg.Done deferred inside checkConnectivity;                    *)
(*   "call"  one direct call checkConnectivity(ctx, info, config) whose    *)
(*           caller owns ctx and may cancel it at any time;                *)
(*   "load"  one call parseAllConfigFiles(folderPath) of the context       *)
(*           variant, "load3" the same of checkip3.go.                     *)
(***************************************************************************)
EXTENDS Bags, FiniteSets, Integers, Sequences, TLC

\* ------------------------------------------------------------------ bounds
MaxRecords == 2
MaxConcurrentLimit == 2
MaxRetryCount == 2
MaxFiles == 2

VARIABLES
    program,       \* which variant runs
    config,        \* Config{ConcurrentLimit, RetryCount, RetryDelay}
    serverInfos,   \* []ServerInfo, the input records
    mainpc,        \* position of main
    idx,           \* index of the dispatch loop over serverInfos
    watcher,       \* the goroutine func(){ wg.Wait(); close(results) }
    wg,            \* sync.WaitGroup counter
    semaphore,     \* number of tokens in the semaphore channel
    results,       \* the buffer of the results channel
    closed,        \* close(results) has happened
    ctxDone,       \* ctx.Done() is closed
    probes,        \* one goroutine per record
    successCount,
    failCount,
    received,      \* bag of the results the drain loop has consumed
    writeFailed,   \* fmt.Fprintln(logFile, ...) has returned an error
    summary,       \* the summary (total, success, fail) once emitted, else <<>>
    crashed,       \* a goroutine panicked: the process is gone
    dir,           \* the config directory parseAllConfigFiles reads
    loaded,        \* what parseAllConfigFiles returned
    env            \* the network: which hosts resolve, which accept a connection

vars == <<env, dir, loaded, program, config, serverInfos, mainpc, idx, watcher, wg, semaphore,
          results, closed, ctxDone, probes, successCount, failCount, received,
          writeFailed, summary, crashed>>

\* ------------------------------------------------------------- data model
\* ServerInfo.ServerIP values: a dotted address, a DNS name without a dot,
\* a DNS name with a dot, a numeric address without a dot.
Hosts == {"10.0.0.1", "db", "db.local", "::1"}
MainHosts == {"10.0.0.1", "db"}

\* strings.Contains(info.ServerIP, ".")
\* (faulty variant, for C9: the test looks for ":")
ContainsColon(host) == host \in {"::1"}
ContainsDot(host) == host \in {"10.0.0.1", "db.local"}

\* what net.LookupIP can give back: addresses, or an error
LookupOutcomes == {"ok", "err"}

\* the network: one that may answer each lookup and each connect attempt
\* differently, or a static one where a host resolves or not and accepts
\* connections or not, for the whole run
\* Go's resolver reports a lookup that finds no address as an error; the
\* signature of net.LookupIP also allows an empty list with a nil error, and
\* with empty set the network may give that answer
AnyEnv == [static |-> FALSE, resolvable |-> {}, reachable |-> {}, empty |-> FALSE]
EmptyEnv == [AnyEnv EXCEPT !.empty = TRUE]
StaticEnvs ==
    [static : {TRUE}, resolvable : SUBSET {"db"}, reachable : SUBSET MainHosts,
     empty : {FALSE}]

\* ips, err := net.LookupIP(info.ServerIP)
LookupIP(host) ==
    IF env.static
    THEN {IF host \in env.resolvable THEN "ok" ELSE "err"}
    ELSE LookupOutcomes \cup (IF env.empty THEN {"empty"} ELSE {})

\* conn, err := net.DialTimeout("tcp", ...): err == nil or not
\* (faulty variant, for C13: the answer of a static network changes)
DialTimeoutAny(host) == BOOLEAN
DialTimeout(host) ==
    IF env.static THEN {host \in env.reachable} ELSE BOOLEAN

\* an error value: its kind and the connect attempt (1-based) that raised it
Err(kind, attempt) == [kind |-> kind, attempt |-> attempt]
NoErr == Err("", 0)

NoResult == [IsSuccess |-> FALSE, Error |-> NoErr]

\* CheckResult{ServerInfo: info, CheckTime: time.Now()}
NewProbe(info) ==
    [pc |-> "idle", info |-> info, i |-> 0, lastErr |-> NoErr,
     ips |-> "unset", result |-> NoResult, late |-> FALSE, lookups |-> 0,
     dials |-> 0, connects |-> 0, waits |-> 0]

Workers == 1 .. Len(serverInfos)

Buffered == program = "ctx"

Running == ~crashed /\ mainpc # "exit"

\* cap(results): len(serverInfos) in the context variant, 0 otherwise
\* (faulty variant, for C19: the buffer is one result short)
CapShort == IF Buffered THEN Len(serverInfos) - 1 ELSE 0
Cap == IF Buffered THEN Len(serverInfos) ELSE 0

SetProbe(w, p) == probes' = [probes EXCEPT ![w] = p]

\* ------------------------------------------------------- config directory
\* a line "key: value" of a config file
Line(key, value) == [key |-> key, value |-> value]

\* the files: no record, one record, two records, a bad serverPort, a good
\* record followed by a bad serverPort
ConfFiles ==
    {<<>>,
     <<Line("serverIP", "db"), Line("serverPort", "80")>>,
     <<Line("serverIP", "10.0.0.1"), Line("serverPort", "80"),
       Line("serverIP", "db"), Line("serverPort", "80")>>,
     <<Line("serverIP", "db"), Line("serverPort", "http")>>,
     <<Line("serverIP", "10.0.0.1"), Line("serverPort", "80"),
       Line("serverIP", "db"), Line("serverPort", "http")>>}

\* os.DirEntry: a config file, or an entry of another name
Entries ==
    {[name |-> "notes.txt", lines |-> <<>>]}
        \cup {[name |-> "app.conf", lines |-> f] : f \in ConfFiles}

Dirs ==
    [readable : BOOLEAN,
     entries : UNION {[1 .. n -> Entries] : n \in 0 .. MaxFiles}]

NoDir == [readable |-> FALSE, entries |-> <<>>]

\* the pair ([]ServerInfo, error) a loader returns
Returned(infos, err) == [done |-> TRUE, infos |-> infos, err |-> err]
NotLoaded == [done |-> FALSE, infos |-> <<>>, err |-> ""]

\* --------------------------------------------------------------- Init
\* DefaultConfig(): RetryCount: 3, RetryDelay: time.Second; the limit of 10 is
\* drawn from a smaller range
DefaultRetryCount == 3

DefaultConfigs ==
    [ConcurrentLimit : 1 .. MaxConcurrentLimit,
     RetryCount : {DefaultRetryCount},
     RetryDelay : {1}]

CallConfigs ==
    [ConcurrentLimit : {1},
     RetryCount : 0 .. MaxRetryCount,
     RetryDelay : {0, 1}]

RecordLists == UNION {[1 .. n -> MainHosts] : n \in 1 .. MaxRecords}

InitCommon ==
    /\ idx = 1
    /\ watcher = "none"
    /\ wg = 0
    /\ semaphore = 0
    /\ results = <<>>
    /\ closed = FALSE
    /\ ctxDone = FALSE
    /\ successCount = 0
    /\ failCount = 0
    /\ received = EmptyBag
    /\ writeFailed = FALSE
    /\ summary = <<>>
    /\ crashed = FALSE

\* main starts from records already loaded
InitMain ==
    /\ mainpc = "dispatch"
    /\ env = AnyEnv
    /\ dir = NoDir
    /\ loaded = NotLoaded
    /\ InitCommon

Init ==
    /\ program \in {"ctx", "sem", "plain"}
    /\ config \in DefaultConfigs
    /\ serverInfos \in RecordLists
    /\ probes = [w \in 1 .. Len(serverInfos) |-> NewProbe(serverInfos[w])]
    /\ InitMain

\* one call of checkConnectivity(ctx, info, config)
InitCall ==
    /\ program = "call"
    /\ config \in CallConfigs
    /\ serverInfos \in [1 .. 1 -> Hosts]
    /\ probes = [w \in 1 .. 1 |-> [NewProbe(serverInfos[w]) EXCEPT !.pc = "resolve"]]
    /\ mainpc = "dispatch"
    /\ env = EmptyEnv
    /\ dir = NoDir
    /\ loaded = NotLoaded
    /\ InitCommon

\* ------------------------------------------- checkConnectivity (context)
\* the loop condition i < config.RetryCount
\* (faulty variant, for C6: one iteration too many)
MoreAttemptsInclusive(i) == i <= config.RetryCount
MoreAttempts(i) == i < config.RetryCount

\* return result
\* (faulty variant, for C15: result.Error is set from lastErr on every return)
ReturnLastErr(p, success, err) ==
    [p EXCEPT !.pc = "returned",
              !.result = [IsSuccess |-> success,
                          Error |-> IF success THEN p.lastErr ELSE err]]
Return(p, success, err) ==
    [p EXCEPT !.pc = "returned", !.result = [IsSuccess |-> success, Error |-> err]]

\* the cases of the select that are ready when the goroutine reaches it:
\* ctx.Done() once cancelled, time.After(config.RetryDelay) at once for a
\* zero delay
SelectCases ==
    {c \in {"ctx", "timer"} :
        \/ c = "ctx" /\ ctxDone
        \/ c = "timer" /\ config.RetryDelay = 0}

\* the select of iteration i > 0: one ready case is taken, either one when
\* both are ready, and the goroutine blocks when none is
Select(p) ==
    LET q == [p EXCEPT !.waits = @ + 1] IN
    IF SelectCases = {} THEN {[q EXCEPT !.pc = "wait"]}
    ELSE {IF c = "ctx" THEN Return(q, FALSE, Err("cancelled", 0))
                       ELSE [q EXCEPT !.pc = "dial"] : c \in SelectCases}

\* host resolution, once, before the loop; then the loop's first test. With
\* no address ips[0] panics (index out of range); with no iteration lastErr
\* stays nil and lastErr.Error() panics
ResolveSteps(p) ==
    {LET q == [p EXCEPT !.lookups = IF o = "skip" THEN @ ELSE @ + 1,
                        !.ips = IF o = "skip" THEN @ ELSE o,
                        !.late = ctxDone] IN
     IF o = "err" THEN Return(q, FALSE, Err("dns", 0))
     ELSE IF o = "empty" THEN [q EXCEPT !.pc = "panic"]
     ELSE IF MoreAttempts(0) THEN [q EXCEPT !.pc = "dial"]
     ELSE [q EXCEPT !.pc = "panic"] :
         o \in (IF ContainsDot(p.info) THEN {"skip"} ELSE LookupIP(p.info))}

\* net.DialTimeout of iteration i, and what follows it up to the next
\* blocking point: return, or i++ and the select of the next iteration
\* (faulty variant, for C16: lastErr keeps the error of the first failure)
DialStepsFirstErr(p) ==
    LET d == [p EXCEPT !.dials = @ + 1]
        q == [d EXCEPT !.lastErr = IF p.lastErr = NoErr THEN Err("conn", p.i + 1)
                                   ELSE p.lastErr,
                       !.i = @ + 1]
    IN (IF TRUE \in DialTimeout(p.info)
        THEN {Return([d EXCEPT !.connects = @ + 1], TRUE, NoErr)} ELSE {})
           \cup (IF FALSE \notin DialTimeout(p.info) THEN {}
                 ELSE IF MoreAttempts(q.i) THEN Select(q)
                 ELSE {Return(q, FALSE, q.lastErr)})
DialSteps(p) ==
    LET d == [p EXCEPT !.dials = @ + 1]
        q == [d EXCEPT !.lastErr = Err("conn", p.i + 1), !.i = @ + 1]
    IN (IF TRUE \in DialTimeout(p.info)
        THEN {Return([d EXCEPT !.connects = @ + 1], TRUE, NoErr)} ELSE {})
           \cup (IF FALSE \notin DialTimeout(p.info) THEN {}
                 ELSE IF MoreAttempts(q.i) THEN Select(q)
                 ELSE {Return(q, FALSE, q.lastErr)})

\* the timer of a blocked select fires first: case <-time.After(...)
TimerSteps(p) == {[p EXCEPT !.pc = "dial"]}

Resolve(w) ==
    /\ Running
    /\ program = "call"
    /\ probes[w].pc = "resolve"
    /\ \E n \in ResolveSteps(probes[w]) :
          /\ SetProbe(w, n)
          /\ crashed' = (n.pc = "panic")
    /\ UNCHANGED <<env, dir, loaded, program, config, serverInfos, mainpc, idx, watcher, wg,
                   semaphore, results, closed, ctxDone, successCount, failCount,
                   received, writeFailed, summary>>

Dial(w) ==
    /\ Running
    /\ program = "call"
    /\ probes[w].pc = "dial"
    /\ \E n \in DialSteps(probes[w]) : SetProbe(w, n)
    /\ UNCHANGED crashed
    /\ UNCHANGED <<env, dir, loaded, program, config, serverInfos, mainpc, idx, watcher, wg,
                   semaphore, results, closed, ctxDone, successCount, failCount,
                   received, writeFailed, summary>>

TimerFires(w) ==
    /\ Running
    /\ program = "call"
    /\ probes[w].pc = "wait"
    /\ \E n \in TimerSteps(probes[w]) : SetProbe(w, n)
    /\ UNCHANGED crashed
    /\ UNCHANGED <<env, dir, loaded, program, config, serverInfos, mainpc, idx, watcher, wg,
                   semaphore, results, closed, ctxDone, successCount, failCount,
                   received, writeFailed, summary>>

\* the whole call, from its first statement to its return or panic, in a run
\* where ctx is not cancelled before the call ends
Steps(p) ==
    CASE p.pc = "resolve" -> ResolveSteps(p)
      [] p.pc = "dial" -> DialSteps(p)
      [] p.pc = "wait" -> TimerSteps(p)
      [] OTHER -> {}

RECURSIVE Run(_)
Run(p) == IF Steps(p) = {} THEN {p} ELSE UNION {Run(n) : n \in Steps(p)}

\* what closing ctx.Done() does to the goroutines: one blocked in the select
\* takes case <-ctx.Done() and returns
Cancelled(ps) ==
    [w \in DOMAIN ps |->
        IF ps[w].pc = "wait" THEN Return(ps[w], FALSE, Err("cancelled", 0))
        ELSE ps[w]]

\* the caller of checkConnectivity cancels ctx
Cancel ==
    /\ Running
    /\ program = "call"
    /\ ~ctxDone
    /\ ctxDone' = TRUE
    /\ probes' = Cancelled(probes)
    /\ UNCHANGED <<env, dir, loaded, program, config, serverInfos, mainpc, idx, watcher, wg,
                   semaphore, results, closed, successCount, failCount,
                   received, writeFailed, summary, crashed>>

\* ------------------------------------------------ scheduler (context)
\* the semaphore channel has room: semaphore <- struct{}{} does not block
\* (faulty variants, for C3 and C4: one slot too many, one too few)
SlotFreeOffByOne == semaphore <= config.ConcurrentLimit
SlotFreeStrict == semaphore < config.ConcurrentLimit - 1
SlotFree == semaphore < config.ConcurrentLimit

\* wg.Wait() may return
\* (faulty variant, for C2: the wait returns with one goroutine left)
AllDoneEarly == wg <= 1
AllDone == wg = 0

\* the value sent on results: the CheckResult, or the formatted line
Message(p) ==
    [info |-> p.info, IsSuccess |-> p.result.IsSuccess, Error |-> p.result.Error.kind]

\* the goroutine past its probe: the locals of checkConnectivity are gone
Past(p, pc) == [NewProbe(p.info) EXCEPT !.pc = pc]

\* go func(info ServerInfo) { ... }(info): the goroutine of record i gets its own
\* copy of the loop variable
\* (faulty variant, for C1: the goroutines share the loop variable)
LaunchShared(i, pc) == [NewProbe(serverInfos[Len(serverInfos)]) EXCEPT !.pc = pc]
Launch(i, pc) == [NewProbe(serverInfos[i]) EXCEPT !.pc = pc]

\* one iteration of: for _, info := range serverInfos { wg.Add(1); go func... }
Dispatch ==
    /\ Running
    /\ program = "ctx"
    /\ mainpc = "dispatch"
    /\ idx <= Len(serverInfos)
    /\ wg' = wg + 1
    /\ SetProbe(idx, Launch(idx, "acquire"))
    /\ idx' = idx + 1
    /\ UNCHANGED <<env, dir, loaded, program, config, serverInfos, mainpc, watcher, semaphore,
                   results, closed, ctxDone, successCount, failCount, received,
                   writeFailed, summary, crashed>>

\* semaphore <- struct{}{} inside the goroutine, then checkConnectivity begins
Acquire(w) ==
    /\ Running
    /\ program = "ctx"
    /\ probes[w].pc = "acquire"
    /\ SlotFree
    /\ semaphore' = semaphore + 1
    /\ SetProbe(w, [probes[w] EXCEPT !.pc = "resolve"])
    /\ UNCHANGED <<env, dir, loaded, program, config, serverInfos, mainpc, idx, watcher, wg,
                   results, closed, ctxDone, successCount, failCount, received,
                   writeFailed, summary, crashed>>

\* result := checkConnectivity(ctx, info, config): of the call only result
\* outlives it
Probe(w) ==
    /\ Running
    /\ program = "ctx"
    /\ probes[w].pc = "resolve"
    /\ \E n \in Run(probes[w]) :
          /\ SetProbe(w, [NewProbe(n.info) EXCEPT !.pc = n.pc, !.result = n.result])
          /\ crashed' = (n.pc = "panic")
    /\ UNCHANGED <<env, dir, loaded, program, config, serverInfos, mainpc, idx, watcher, wg,
                   semaphore, results, closed, ctxDone, successCount, failCount,
                   received, writeFailed, summary>>

\* results <- result on the buffered channel; a send on a closed channel panics
Send(w) ==
    /\ Running
    /\ program = "ctx"
    /\ probes[w].pc = "returned"
    /\ closed \/ Len(results) < Cap
    /\ IF closed
       THEN /\ crashed' = TRUE
            /\ SetProbe(w, [probes[w] EXCEPT !.pc = "panic"])
            /\ UNCHANGED results
       ELSE /\ results' = Append(results, Message(probes[w]))
            /\ SetProbe(w, Past(probes[w], "release"))
            /\ UNCHANGED crashed
    /\ UNCHANGED <<env, dir, loaded, program, config, serverInfos, mainpc, idx, watcher, wg,
                   semaphore, closed, ctxDone, successCount, failCount, received,
                   writeFailed, summary>>

\* (faulty variant, for C14: the goroutine returns without <-semaphore)
ExitKeepsSlot(w) ==
    /\ Running
    /\ probes[w].pc = "release"
    /\ wg' = wg - 1
    /\ SetProbe(w, [probes[w] EXCEPT !.pc = "exited"])
    /\ UNCHANGED <<env, dir, loaded, program, config, serverInfos, mainpc, idx,
                   watcher, semaphore, results, closed, ctxDone, successCount,
                   failCount, received, writeFailed, summary, crashed>>

\* the goroutine returns and its deferred calls run, last deferred first:
\* func() { <-semaphore }() where there is a semaphore, then wg.Done()
Exit(w) ==
    /\ Running
    /\ probes[w].pc = "release"
    /\ semaphore' = IF program \in {"ctx", "sem"} THEN semaphore - 1 ELSE semaphore
    /\ wg' = wg - 1
    /\ SetProbe(w, [probes[w] EXCEPT !.pc = "exited"])
    /\ UNCHANGED <<env, dir, loaded, program, config, serverInfos, mainpc, idx, watcher,
                   results, closed, ctxDone, successCount, failCount, received,
                   writeFailed, summary, crashed>>

\* after the dispatch loop: go func() { wg.Wait(); close(results) }()
StartWatcher ==
    /\ Running
    /\ mainpc = "dispatch"
    /\ idx > Len(serverInfos)
    /\ watcher' = "waiting"
    /\ mainpc' = IF program = "plain" THEN "create" ELSE "drain"
    /\ UNCHANGED <<env, dir, loaded, program, config, serverInfos, idx, wg, semaphore, results,
                   closed, ctxDone, probes, successCount, failCount, received,
                   writeFailed, summary, crashed>>

\* wg.Wait() returns
WatcherWait ==
    /\ Running
    /\ watcher = "waiting"
    /\ AllDone
    /\ watcher' = "closing"
    /\ UNCHANGED <<env, dir, loaded, program, config, serverInfos, mainpc, idx, wg, semaphore,
                   results, closed, ctxDone, probes, successCount, failCount,
                   received, writeFailed, summary, crashed>>

\* close(results)
WatcherClose ==
    /\ Running
    /\ watcher = "closing"
    /\ watcher' = "closed"
    /\ closed' = TRUE
    /\ UNCHANGED <<env, dir, loaded, program, config, serverInfos, mainpc, idx, wg, semaphore,
                   results, ctxDone, probes, successCount, failCount, received,
                   writeFailed, summary, crashed>>

\* if result.IsSuccess { successCount++ } else { failCount++ }
\* (faulty variant, for C10: failCount++ outside the else)
TallyNoElse(result) ==
    [success |-> IF result.IsSuccess THEN successCount + 1 ELSE successCount,
     fail |-> failCount + 1]
Tally(result) ==
    [success |-> IF result.IsSuccess THEN successCount + 1 ELSE successCount,
     fail |-> IF result.IsSuccess THEN failCount ELSE failCount + 1]

\* one iteration of: for result := range results, counting and writing the
\* line to the console and to the log file, whose write error is ignored
Recv ==
    /\ Running
    /\ program = "ctx"
    /\ mainpc = "drain"
    /\ results # <<>>
    /\ LET result == Head(results) IN
       /\ results' = Tail(results)
       /\ successCount' = Tally(result).success
       /\ failCount' = Tally(result).fail
       /\ received' = received (+) SetToBag({result})
    /\ \E written \in BOOLEAN : writeFailed' = (writeFailed \/ ~written)
    /\ UNCHANGED <<env, dir, loaded, program, config, serverInfos, mainpc, idx, watcher, wg,
                   semaphore, closed, ctxDone, probes, summary, crashed>>

\* range results ends: the channel is closed and empty
DrainEnd ==
    /\ Running
    /\ mainpc = "drain"
    /\ closed
    /\ results = <<>>
    /\ mainpc' = IF program = "ctx" THEN "summary" ELSE "exit"
    /\ UNCHANGED <<env, dir, loaded, program, config, serverInfos, idx, watcher, wg, semaphore,
                   results, closed, ctxDone, probes, successCount, failCount,
                   received, writeFailed, summary, crashed>>

\* the summary, then main returns: the deferred cancel() runs
Summary ==
    /\ Running
    /\ mainpc = "summary"
    /\ summary' = <<Len(serverInfos), successCount, failCount>>
    /\ mainpc' = "exit"
    /\ ctxDone' = TRUE
    /\ UNCHANGED <<env, dir, loaded, program, config, serverInfos, idx, watcher, wg, semaphore,
                   results, closed, probes, successCount, failCount, received,
                   writeFailed, crashed>>

\* ------------------------------------------------ scheduler (checkip3.go)
\* wg.Add(1); semaphore <- struct{}{}; go func...: the loop blocks on the
\* semaphore
DispatchSem ==
    /\ Running
    /\ program = "sem"
    /\ mainpc = "dispatch"
    /\ idx <= Len(serverInfos)
    /\ SlotFree
    /\ wg' = wg + 1
    /\ semaphore' = semaphore + 1
    /\ SetProbe(idx, Launch(idx, "resolve"))
    /\ idx' = idx + 1
    /\ UNCHANGED <<env, dir, loaded, program, config, serverInfos, mainpc, watcher, results,
                   closed, ctxDone, successCount, failCount, received, writeFailed, summary, crashed>>

\* checkConnectivity(info, timeout, results) of checkip3.go, up to its send:
\* one result line for the record
Probe3(w) ==
    /\ Running
    /\ program = "sem"
    /\ probes[w].pc = "resolve"
    /\ \E kind \in {"", "dns", "conn"} :
          SetProbe(w, [probes[w] EXCEPT !.pc = "send",
                          !.result = [IsSuccess |-> kind = "", Error |-> Err(kind, 0)]])
    /\ UNCHANGED <<env, dir, loaded, program, config, serverInfos, mainpc, idx, watcher, wg,
                   semaphore, results, closed, ctxDone, successCount, failCount,
                   received, writeFailed, summary, crashed>>

\* ---------------------------------------------- scheduler (first version)
\* wg.Add(1); go checkConnectivity(info, timeout, &wg, results)
DispatchPlain ==
    /\ Running
    /\ program = "plain"
    /\ mainpc = "dispatch"
    /\ idx <= Len(serverInfos)
    /\ wg' = wg + 1
    /\ SetProbe(idx, Launch(idx, "resolve"))
    /\ idx' = idx + 1
    /\ UNCHANGED <<env, dir, loaded, program, config, serverInfos, mainpc, watcher, semaphore,
                   results, closed, ctxDone, successCount, failCount, received,
                   writeFailed, summary, crashed>>

\* checkConnectivity of the first version up to its send: a failed lookup,
\* a failed net.DialTimeout or the success is the one line it sends
Lines1(p) ==
    {LET q == [p EXCEPT !.lookups = IF o = "skip" THEN @ ELSE @ + 1,
                        !.ips = IF o = "skip" THEN @ ELSE o] IN
     IF o = "err"
     THEN [q EXCEPT !.pc = "send",
                    !.result = [IsSuccess |-> FALSE, Error |-> Err("dns", 0)]]
     ELSE [q EXCEPT !.pc = "send", !.dials = @ + 1,
                    !.connects = IF ok THEN @ + 1 ELSE @,
                    !.result = [IsSuccess |-> ok,
                                Error |-> IF ok THEN NoErr ELSE Err("conn", 1)]] :
         o \in (IF ContainsDot(p.info) THEN {"skip"} ELSE LookupOutcomes),
         ok \in BOOLEAN}

Probe1(w) ==
    /\ Running
    /\ program = "plain"
    /\ probes[w].pc = "resolve"
    /\ \E n \in Lines1(probes[w]) : SetProbe(w, n)
    /\ UNCHANGED <<env, dir, loaded, program, config, serverInfos, mainpc, idx, watcher, wg,
                   semaphore, results, closed, ctxDone, successCount, failCount,
                   received, writeFailed, summary, crashed>>

\* os.Create("connectinfo.log") after the goroutines were started
CreateLog ==
    /\ Running
    /\ mainpc = "create"
    /\ \E created \in BOOLEAN : mainpc' = IF created THEN "drain" ELSE "exit"
    /\ UNCHANGED <<env, dir, loaded, program, config, serverInfos, idx, watcher, wg, semaphore,
                   results, closed, ctxDone, probes, successCount, failCount,
                   received, writeFailed, summary, crashed>>

\* results <- line meets for result := range results on the unbuffered
\* channel; the line is printed and written, and a write error ends main
Rendezvous(w) ==
    /\ Running
    /\ program \in {"sem", "plain"}
    /\ mainpc = "drain"
    /\ probes[w].pc = "send"
    /\ ~closed
    /\ SetProbe(w, Past(probes[w], "release"))
    /\ received' = received (+) SetToBag({Message(probes[w])})
    /\ \E written \in BOOLEAN :
          /\ writeFailed' = (writeFailed \/ ~written)
          /\ mainpc' = IF written THEN mainpc ELSE "exit"
    /\ UNCHANGED <<env, dir, loaded, program, config, serverInfos, idx, watcher, wg, semaphore,
                   results, closed, ctxDone, successCount, failCount, summary,
                   crashed>>

\* ------------------------------------------------------------ config loader
\* strconv.Atoi(value) returns an error
AtoiFails(value) == value \notin {"80"}

\* strings.HasSuffix(entry.Name(), ".conf")
HasSuffixConf(name) == name \in {"app.conf"}

\* the scan loop of parseServerInfo: serverIP fills the current record, a
\* serverPort that parses completes it, one that does not fails the file
RECURSIVE ScanLines(_, _, _)
ScanLines(lines, currentInfo, serverInfos_) ==
    IF lines = <<>>
    THEN [infos |-> serverInfos_, err |-> FALSE]
    ELSE LET line == Head(lines) IN
         CASE line.key = "serverIP" ->
                  ScanLines(Tail(lines), line.value, serverInfos_)
           [] line.key = "serverPort" ->
                  IF AtoiFails(line.value)
                  THEN [infos |-> <<>>, err |-> TRUE]
                  ELSE ScanLines(Tail(lines), "", Append(serverInfos_, currentInfo))
           [] OTHER -> ScanLines(Tail(lines), currentInfo, serverInfos_)

ParseServerInfo(lines) == ScanLines(lines, "", <<>>)

\* parseServerInfo as checkip3.go calls it
ParseServerInfo3(lines) == ParseServerInfo(lines)

\* entries, err := os.ReadDir(folderPath)
ReadDir ==
    /\ Running
    /\ program \in {"load", "load3"}
    /\ mainpc = "readdir"
    /\ IF dir.readable
       THEN /\ mainpc' = "range"
            /\ UNCHANGED loaded
       ELSE /\ mainpc' = "loaded"
            /\ loaded' = Returned(<<>>, "readdir")
    /\ UNCHANGED <<env, dir, program, config, serverInfos, idx, watcher, wg,
                   semaphore, results, closed, ctxDone, probes, successCount,
                   failCount, received, writeFailed, summary, crashed>>

\* one iteration of: for _, entry := range entries, in the context variant:
\* a file that does not parse is warned about and skipped
LoadEntry ==
    /\ Running
    /\ program = "load"
    /\ mainpc = "range"
    /\ idx <= Len(dir.entries)
    /\ LET entry == dir.entries[idx]
           parsed == ParseServerInfo(entry.lines) IN
       serverInfos' = IF HasSuffixConf(entry.name) /\ ~parsed.err
                      THEN serverInfos \o parsed.infos
                      ELSE serverInfos
    /\ idx' = idx + 1
    /\ UNCHANGED <<env, dir, loaded, program, config, mainpc, watcher, wg,
                   semaphore, results, closed, ctxDone, probes, successCount,
                   failCount, received, writeFailed, summary, crashed>>

\* after the loop of the context variant: no record at all is an error
LoadReturn ==
    /\ Running
    /\ program = "load"
    /\ mainpc = "range"
    /\ idx > Len(dir.entries)
    /\ loaded' = IF Len(serverInfos) = 0
                 THEN Returned(<<>>, "empty")
                 ELSE Returned(serverInfos, "")
    /\ mainpc' = "loaded"
    /\ UNCHANGED <<env, dir, program, config, serverInfos, idx, watcher, wg,
                   semaphore, results, closed, ctxDone, probes, successCount,
                   failCount, received, writeFailed, summary, crashed>>

\* one iteration of the loop of checkip3.go: a file that does not parse is
\* the error the loader returns
LoadEntry3 ==
    /\ Running
    /\ program = "load3"
    /\ mainpc = "range"
    /\ idx <= Len(dir.entries)
    /\ LET entry == dir.entries[idx]
           parsed == ParseServerInfo3(entry.lines) IN
       IF HasSuffixConf(entry.name) /\ parsed.err
       THEN /\ loaded' = Returned(<<>>, "parse")
            /\ mainpc' = "loaded"
            /\ UNCHANGED <<serverInfos, idx>>
       ELSE /\ serverInfos' = IF HasSuffixConf(entry.name)
                              THEN serverInfos \o parsed.infos
                              ELSE serverInfos
            /\ idx' = idx + 1
            /\ UNCHANGED <<loaded, mainpc>>
    /\ UNCHANGED <<env, dir, program, config, watcher, wg, semaphore, results,
                   closed, ctxDone, probes, successCount, failCount, received,
                   writeFailed, summary, crashed>>

\* after the loop of checkip3.go: return serverInfos, nil
LoadReturn3 ==
    /\ Running
    /\ program = "load3"
    /\ mainpc = "range"
    /\ idx > Len(dir.entries)
    /\ loaded' = Returned(serverInfos, "")
    /\ mainpc' = "loaded"
    /\ UNCHANGED <<env, dir, program, config, serverInfos, idx, watcher, wg,
                   semaphore, results, closed, ctxDone, probes, successCount,
                   failCount, received, writeFailed, summary, crashed>>

Next ==
    \/ Dispatch
    \/ \E w \in Workers : Acquire(w)
    \/ \E w \in Workers : Probe(w)
    \/ \E w \in Workers : Send(w)
    \/ \E w \in Workers : Exit(w)
    \/ StartWatcher
    \/ WatcherWait
    \/ WatcherClose
    \/ Recv
    \/ DrainEnd
    \/ Summary
    \/ DispatchSem
    \/ \E w \in Workers : Probe3(w)
    \/ DispatchPlain
    \/ \E w \in Workers : Probe1(w)
    \/ CreateLog
    \/ \E w \in Workers : Rendezvous(w)

Spec == Init /\ [][Next]_vars

\* every goroutine that can run is eventually scheduled
FairSpec == Spec /\ WF_vars(Next)

NextCall ==
    \/ \E w \in Workers : Resolve(w)
    \/ \E w \in Workers : Dial(w)
    \/ \E w \in Workers : TimerFires(w)
    \/ Cancel

SpecCall == InitCall /\ [][NextCall]_vars

\* a run of the context variant in a static network
InitStatic ==
    /\ program = "ctx"
    /\ config \in DefaultConfigs
    /\ serverInfos \in RecordLists
    /\ probes = [w \in 1 .. Len(serverInfos) |-> NewProbe(serverInfos[w])]
    /\ mainpc = "dispatch"
    /\ env \in StaticEnvs
    /\ dir = NoDir
    /\ loaded = NotLoaded
    /\ InitCommon

NextStatic ==
    \/ Dispatch
    \/ \E w \in Workers : Acquire(w)
    \/ \E w \in Workers : Probe(w)
    \/ \E w \in Workers : Send(w)
    \/ \E w \in Workers : Exit(w)
    \/ StartWatcher
    \/ WatcherWait
    \/ WatcherClose
    \/ Recv
    \/ DrainEnd
    \/ Summary

SpecStatic == InitStatic /\ [][NextStatic]_vars

\* one call of parseAllConfigFiles(folderPath)
InitLoad ==
    /\ program \in {"load", "load3"}
    /\ config \in DefaultConfigs
    /\ env = AnyEnv
    /\ dir \in Dirs
    /\ loaded = NotLoaded
    /\ serverInfos = <<>>
    /\ probes = <<>>
    /\ mainpc = "readdir"
    /\ InitCommon

NextLoad ==
    \/ ReadDir
    \/ LoadEntry
    \/ LoadReturn
    \/ LoadEntry3
    \/ LoadReturn3

SpecLoad == InitLoad /\ [][NextLoad]_vars

\* ----------------------------------------------------------------- claims
\* how often the record h is in the input, and in the consumed results
Wanted(h) == Cardinality({k \in DOMAIN serverInfos : serverInfos[k] = h})
Got(h) ==
    LET RECURSIVE Sum(_)
        Sum(S) == IF S = {} THEN 0
                  ELSE LET m == CHOOSE x \in S : TRUE IN
                       (IF m.info = h THEN CopiesIn(m, received) ELSE 0) + Sum(S \ {m})
    IN Sum(BagToSet(received))

\* the drain loop has seen the stream closed
DrainEnded == closed /\ mainpc \in {"summary", "exit"}

\* C1: the drain loop never consumes more results for a record than the input
\* holds copies of it, and once it has seen the stream closed it has consumed
\* exactly one result per input record (the multisets of records agree).
C1_OneResultPerRecord ==
    /\ \A h \in Hosts : Got(h) <= Wanted(h)
    /\ DrainEnded => \A h \in Hosts : Got(h) = Wanted(h)

C1_Witness ==
    /\ program = "ctx"
    /\ DrainEnded
    /\ Len(serverInfos) = 2
    /\ serverInfos[1] = serverInfos[2]
    /\ \E m \in BagToSet(received) : m.IsSuccess
    /\ \E m \in BagToSet(received) : ~m.IsSuccess

\* C2: once wg.Wait() has returned, and so whenever the stream is closed, every
\* launched probe has delivered its result and finished; no goroutine ever
\* panics on a send to the closed channel.
C2_CloseAfterAllFinished ==
    /\ (watcher \in {"closing", "closed"} \/ closed) =>
           \A w \in Workers : probes[w].pc = "exited"
    /\ \A w \in Workers : probes[w].pc # "panic"

C2_Witness ==
    /\ closed
    /\ mainpc = "drain"
    /\ Len(serverInfos) = 2
    /\ results # <<>>

\* C3: the goroutines between the semaphore acquire and its release, the probe
\* call among them, are never more than config.ConcurrentLimit.
Holding(w) ==
    /\ program \in {"ctx", "sem"}
    /\ probes[w].pc \in {"resolve", "returned", "send", "release"}

InProbe(w) == probes[w].pc = "resolve"

C4_Terminates ==
    <>(program = "ctx" =>
           /\ closed
           /\ mainpc = "exit"
           /\ summary # <<>>
           /\ \A w \in Workers : probes[w].pc = "exited")

C4_Witness ==
    /\ program = "ctx"
    /\ Len(serverInfos) > config.ConcurrentLimit
    /\ mainpc = "exit"
    /\ summary # <<>>

\* C5: in checkip3.go the dispatch loop, blocked on the semaphore, always gets
\* to go on: while records are left to launch the program is never stuck.
C5_DispatchNeverStuck ==
    (program = "sem" /\ mainpc = "dispatch" /\ idx <= Len(serverInfos)) => ENABLED Next

\* C6: a call with RetryCount > 0 never makes more than RetryCount connect
\* attempts, and one that returns a failure without cancellation after an
\* attempt has made exactly RetryCount of them, one after another with a wait
\* between two, and carries the error of the last.
C6_ExactAttempts ==
    \A w \in Workers :
        LET p == probes[w] IN
        config.RetryCount > 0 =>
            /\ p.dials <= config.RetryCount
            /\ (p.pc = "returned" /\ ~p.result.IsSuccess /\ ~ctxDone /\ p.dials > 0) =>
                   /\ p.dials = config.RetryCount
                   /\ p.waits = config.RetryCount - 1
                   /\ p.result.Error = Err("conn", config.RetryCount)

C6_Witness ==
    /\ program = "call"
    /\ config.RetryCount = 2
    /\ ~ctxDone
    /\ probes[1].pc = "returned"
    /\ ~probes[1].result.IsSuccess
    /\ probes[1].dials = 2

\* C7: with RetryCount = 0 a call on a host that needs no lookup does not
\* fault, and returns after exactly one connect attempt.
C7_ZeroRetryOneAttempt ==
    \A w \in Workers :
        (config.RetryCount = 0 /\ probes[w].info = "10.0.0.1") =>
            /\ probes[w].pc # "panic"
            /\ probes[w].pc = "returned" => probes[w].dials = 1

\* C8: a retry wait that begins after the cancellation, or is pending when it
\* fires, ends in the cancelled result and never in a further connect attempt.
C8_CancelWinsAtWait ==
    [][\A w \in 1 .. 1 :
          /\ (ctxDone /\ probes'[w].waits > probes[w].waits) =>
                 /\ probes'[w].pc = "returned"
                 /\ probes'[w].result = [IsSuccess |-> FALSE, Error |-> Err("cancelled", 0)]
          /\ (probes[w].pc = "wait" /\ ctxDone') =>
                 /\ probes'[w].pc = "returned"
                 /\ probes'[w].result = [IsSuccess |-> FALSE, Error |-> Err("cancelled", 0)]]_vars

Successes ==
    LET RECURSIVE Sum(_)
        Sum(S) == IF S = {} THEN 0
                  ELSE LET m == CHOOSE x \in S : TRUE IN
                       (IF m.IsSuccess THEN CopiesIn(m, received) ELSE 0) + Sum(S \ {m})
    IN Sum(BagToSet(received))

C10_CountsAgree ==
    program = "ctx" =>
        /\ successCount + failCount = BagCardinality(received)
        /\ successCount = Successes
        /\ summary # <<>> =>
               /\ summary = <<Len(serverInfos), successCount, failCount>>
               /\ summary[1] = summary[2] + summary[3]
               /\ summary[1] = BagCardinality(received)

C10_Witness ==
    /\ program = "ctx"
    /\ summary = <<2, 1, 1>>

\* C11: a failed write of a result line does not stop the run: when main has
\* returned after a write error, the stream had been drained to its close and
\* every launched probe had completed.
C11_WriteErrorDoesNotStop ==
    (writeFailed /\ mainpc = "exit") =>
        /\ closed
        /\ \A w \in Workers : probes[w].pc = "exited"

\* the records of the files that parse, in directory order
RECURSIVE ValidRecords(_)
ValidRecords(entries) ==
    IF entries = <<>> THEN <<>>
    ELSE LET entry == Head(entries)
             parsed == ParseServerInfo(entry.lines) IN
         (IF HasSuffixConf(entry.name) /\ ~parsed.err THEN parsed.infos ELSE <<>>)
             \o ValidRecords(Tail(entries))

\* C12: the loader fails exactly when the directory is unreadable or no file
\* yields a record; otherwise a file that does not parse is skipped and the
\* records of all the files that parse are returned.
C12_MalformedFileSkipped ==
    loaded.done =>
        /\ (loaded.err # "") <=> (~dir.readable \/ ValidRecords(dir.entries) = <<>>)
        /\ loaded.err = "" => loaded.infos = ValidRecords(dir.entries)

\* the classification a static network fixes for a host: success when it
\* resolves (or needs no lookup) and accepts a connection
Classification(host) ==
    /\ ContainsDot(host) \/ host \in env.resolvable
    /\ host \in env.reachable

C14_SlotReleasedOnce ==
    program \in {"ctx", "sem"} =>
        /\ semaphore = Cardinality({w \in Workers : Holding(w)})
        /\ (\A w \in Workers : probes[w].pc = "exited") => semaphore = 0

C14_Witness ==
    /\ program = "ctx"
    /\ Len(serverInfos) = 2
    /\ \A w \in Workers : probes[w].pc = "exited"
    /\ semaphore = 0
    /\ \E m \in BagToSet(received) : m.Error = "dns"
    /\ \E m \in BagToSet(received) : m.IsSuccess

\* C15: a call has IsSuccess exactly when one of its connect attempts has
\* connected; it then has returned from that attempt, the last one made, with
\* as many waits as attempts before it and no error in the result.
C15_SuccessAtFirstConnect ==
    \A w \in Workers :
        LET p == probes[w] IN
        /\ p.result.IsSuccess <=> p.connects > 0
        /\ p.connects > 0 =>
               /\ p.connects = 1
               /\ p.pc = "returned"
               /\ p.dials = p.i + 1
               /\ p.waits = p.i
               /\ p.result.Error = NoErr

C15_Witness ==
    /\ program = "call"
    /\ config.RetryCount = 2
    /\ probes[1].pc = "returned"
    /\ probes[1].result.IsSuccess
    /\ probes[1].connects = 1
    /\ probes[1].dials = 2

\* C16: a call that has returned without success carries an error: that of
\* the failed lookup, made once and followed by no attempt; the cancellation
\* seen at a wait; or, with the attempts used up, that of the last of them.
C16_FailureCarriesLastError ==
    \A w \in Workers :
        LET p == probes[w] IN
        (p.pc = "returned" /\ ~p.result.IsSuccess) =>
            /\ p.result.Error.kind \in {"dns", "conn", "cancelled"}
            /\ p.result.Error.kind = "dns" => (p.lookups = 1 /\ p.dials = 0)
            /\ p.result.Error.kind = "cancelled" => (ctxDone /\ p.dials < config.RetryCount)
            /\ p.result.Error.kind = "conn" =>
                   /\ p.dials = config.RetryCount
                   /\ p.result.Error.attempt = p.dials
                   /\ p.result.Error = p.lastErr

C16_Witness ==
    /\ program = "call"
    /\ config.RetryCount = 2
    /\ config.RetryDelay = 0
    /\ probes[1].pc = "returned"
    /\ probes[1].result = [IsSuccess |-> FALSE, Error |-> Err("conn", 2)]

\* the hosts that are numeric IP addresses
NumericIP(host) == host \in {"10.0.0.1", "::1"}

\* C17: a call past its resolution step has made no lookup exactly when its
\* host is a numeric IP address: "db.local" is looked up and "::1" is not.
C17_LookupUnlessNumeric ==
    \A w \in Workers :
        LET p == probes[w] IN
        p.pc # "resolve" => (p.lookups = 0 <=> NumericIP(p.info))

\* C18: a call whose lookup came back with no address and no error does not
\* fault: it returns a failure that carries the resolution error.
C18_EmptyLookupIsError ==
    \A w \in Workers :
        LET p == probes[w] IN
        p.ips = "empty" =>
            /\ p.pc = "returned"
            /\ p.result = [IsSuccess |-> FALSE, Error |-> Err("dns", 0)]

\* C19: in the context variant the buffer of results never holds more than
\* its capacity, and a goroutine that is about to send finds the channel open
\* and with room, whether or not the drain loop has consumed anything.
C19_SendNeverBlocks ==
    program = "ctx" =>
        /\ Len(results) <= Cap
        /\ \A w \in Workers :
               probes[w].pc = "returned" => (~closed /\ Len(results) < Cap)

C19_Witness ==
    /\ program = "ctx"
    /\ mainpc = "dispatch"
    /\ Len(results) = Cap
    /\ Cap = 2
    /\ received = EmptyBag
    /\ semaphore = 0

\* C20: a call that began with ctx already cancelled (late) has made its
\* lookup and at most one connect attempt, exactly one once it has returned
\* with its host resolved; it returns the cancelled result only after that
\* attempt and with RetryCount > 1, and with RetryCount = 1 no call does.
C20_OneAttemptAfterCancel ==
    \A w \in Workers :
        LET p == probes[w] IN
        /\ p.late =>
               /\ p.lookups = (IF ContainsDot(p.info) THEN 0 ELSE 1)
               /\ p.dials <= 1
               /\ (p.pc = "returned" /\ p.result.Error.kind # "dns") => p.dials = 1
               /\ (p.pc = "returned" /\ p.result.Error.kind = "cancelled") =>
                      config.RetryCount > 1
        /\ config.RetryCount = 1 => p.result.Error.kind # "cancelled"

====
